---- MODULE Spec2Model ----
(***************************************************************************)
(* A model of the edc-umm scripts:                                         *)
(*   get_collections_with_opendap.py  (fetch, filter, snapshot files)      *)
(*   manage_associations.py           (associate a provider's collections) *)
(*   mirror_associations.py           (replicate a service's associations) *)
(*                                                                         *)
(* Python values are modelled as follows.                                  *)
(*   - A string the code only compares or passes on is a TLA+ string.      *)
(*   - A string the code takes apart (lower(), endswith(), `in`) is a      *)
(*     sequence of symbols: characters for names and concept IDs, URL      *)
(*     segments for URLs.                                                  *)
(*   - A JSON value is a tagged record: Null, Dict(f) with f a function    *)
(*     from keys to JSON values, List(s) with s a sequence.                *)
(*   - The outcome of a call is Return(v) or Raise(exc).                   *)
(***************************************************************************)
EXTENDS Integers, Sequences, FiniteSets, TLC

VARIABLES
    call,               \* the pure-function specifications: the call's arguments
    ret,                \* ... and its outcome (NotCalled before the call)
    \* query_cmr_graph_for_collections
    collection_count,   \* the total the loop aims for
    all_collections,    \* the accumulator
    error_count,
    cursor,             \* request_json['variables']['collectionParams']['cursor']
    fetch_pc,           \* "loop" | "returned"
    catalog_size,       \* the server: how many collections it holds
    exchanges,          \* history: every request sent, with its response
    \* the entry points, run one after another in one working directory
    files,              \* the directory: file name -> content or Missing
    last                \* the last entry-point call: arguments, I/O, outcome

pureVars == <<call, ret>>

fetchVars == <<collection_count, all_collections, error_count, cursor,
               fetch_pc, catalog_size, exchanges>>

progVars == <<files, last>>

vars == <<pureVars, fetchVars, progVars>>

----------------------------------------------------------------------------
(* Python outcomes and JSON values *)

Return(v) == [kind |-> "return", value |-> v]

Raise(exc) == [kind |-> "raise", exc |-> exc]

NotCalled == [kind |-> "pending"]

Null == [t |-> "null"]

Dict(f) == [t |-> "dict", v |-> f]

List(s) == [t |-> "list", v |-> s]

EmptyDict == Dict(<<>>)

IsDict(x) == x.t = "dict"

IsNull(x) == x.t = "null"

\* dict.get(key, default) on a value known to be a dict
DictGet(d, key, default) == IF key \in DOMAIN d.v THEN d.v[key] ELSE default

----------------------------------------------------------------------------
(* Strings as sequences of symbols *)

\* `needle in haystack` for Python strings: a contiguous occurrence
StrContains(needle, haystack) ==
    \E i \in 0..(Len(haystack) - Len(needle)) :
        \A j \in 1..Len(needle) : haystack[i + j] = needle[j]

\* str.lower(), over the letters the model's strings use
LowerChar(ch) ==
    CASE ch = "A" -> "a" [] ch = "C" -> "c" [] ch = "D" -> "d" [] ch = "L" -> "l"
      [] ch = "O" -> "o" [] ch = "P" -> "p" [] ch = "R" -> "r" [] ch = "S" -> "s"
      [] ch = "T" -> "t" [] ch = "U" -> "u" [] ch = "I" -> "i" [] ch = "H" -> "h"
      [] ch = "E" -> "e"
      [] OTHER -> ch

Lower(s) == [i \in 1..Len(s) |-> LowerChar(s[i])]

\* s.endswith(suffix)
EndsWith(s, suffix) ==
    /\ Len(suffix) <= Len(s)
    /\ \A j \in 1..Len(suffix) : s[Len(s) - Len(suffix) + j] = suffix[j]

----------------------------------------------------------------------------
(* get_collections_with_opendap.py: environment_parameters *)

PROD == <<"p", "r", "o", "d">>

UAT == <<"u", "a", "t">>

SIT == <<"s", "i", "t">>

\* URLs are sequences of segments; these are the hyrax_substring values
environment_parameters ==
    (PROD :> [edl_root |-> "https://urs.earthdata.nasa.gov",
              graphql |-> "https://graphql.earthdata.nasa.gov/api",
              hyrax_substring |-> <<"opendap.", "earthdata.nasa.gov">>])
    @@ (UAT :> [edl_root |-> "https://uat.urs.earthdata.nasa.gov",
                graphql |-> "https://graphql.uat.earthdata.nasa.gov/api",
                hyrax_substring |-> <<"opendap.", "uat.", "earthdata.nasa.gov">>])
    @@ (SIT :> [edl_root |-> "https://sit.urs.earthdata.nasa.gov",
                graphql |-> "https://graphql.sit.earthdata.nasa.gov/api",
                hyrax_substring |-> <<"opendap.", "sit.", "earthdata.nasa.gov">>])

----------------------------------------------------------------------------
(* get_collections_with_opendap.py: query_cmr_graph_for_collections *)

\* 'limit': 100 of collectionParams
PageLimit == 100

max_errors == 3

\* collection_count = 1, "a non-zero value to trigger first request"
InitialCollectionCount == 1

\* collectionParams holds no 'cursor' key until a response set one; a cursor
\* the server hands out is the number of collections it has served so far
NoCursor == -1

MaxPages == 3

MaxRequests == 6

\* catalog sizes around the page boundaries
CatalogSizes ==
    {n \in 0..(MaxPages * PageLimit) : n % PageLimit \in {0, 1, 50, 99}}

Min(a, b) == IF a < b THEN a ELSE b

\* The server. The catalog is the collections 1..catalog_size in server
\* order; a request with cursor c asks for what follows the first c of them.
\* A success response reports the total and hands back a page and the cursor
\* after it: the full next page ("full"), a single collection although more
\* remain ("short"), or nothing ("empty").
PageSizes(offset, limit) ==
    LET remaining == catalog_size - offset
    IN  [full |-> Min(limit, remaining), short |-> Min(1, remaining), empty |-> 0]

SuccessResponse(request_cursor, limit, page) ==
    LET offset == IF request_cursor = NoCursor THEN 0 ELSE request_cursor
        n == PageSizes(offset, limit)[page]
    IN  [ok |-> TRUE, page |-> page, count |-> catalog_size,
         items |-> [i \in 1..n |-> offset + i], cursor |-> offset + n]

ErrorResponse == [ok |-> FALSE, page |-> "none", count |-> 0,
                  items |-> <<>>, cursor |-> NoCursor]

FetchIdle ==
    /\ collection_count = 0 /\ all_collections = <<>> /\ error_count = 0
    /\ cursor = NoCursor /\ fetch_pc = "idle" /\ catalog_size = 0
    /\ exchanges = <<>>

PureIdle == call = [op |-> "none"] /\ ret = NotCalled

ProgIdle == files = <<>> /\ last = [entry |-> "none"]

InitFetch ==
    /\ catalog_size \in CatalogSizes
    /\ collection_count = InitialCollectionCount
    /\ all_collections = <<>>
    /\ error_count = 0
    /\ cursor = NoCursor
    /\ fetch_pc = "loop"
    /\ exchanges = <<>>
    /\ PureIdle
    /\ ProgIdle

\* the while condition
LoopCondition ==
    error_count < max_errors /\ Len(all_collections) < collection_count

\* requests.post(...) of one loop iteration, recorded with its response
Exchange(response) == Append(exchanges, [cursor |-> cursor, response |-> response])

\* mutant: the cursor of the response is not stored for the next request
ResponseOk_KeepsCursor(page) ==
    /\ fetch_pc = "loop" /\ LoopCondition /\ Len(exchanges) < MaxRequests
    /\ LET response == SuccessResponse(cursor, PageLimit, page)
       IN  /\ exchanges' = Exchange(response)
           /\ collection_count' = response.count
           /\ all_collections' = all_collections \o response.items
           /\ cursor' = cursor
    /\ UNCHANGED <<error_count, fetch_pc, catalog_size, pureVars, progVars>>

\* mutant: a success response resets the error counter
ResponseOk_ResetsErrors(page) ==
    /\ fetch_pc = "loop" /\ LoopCondition /\ Len(exchanges) < MaxRequests
    /\ LET response == SuccessResponse(cursor, PageLimit, page)
       IN  /\ exchanges' = Exchange(response)
           /\ collection_count' = response.count
           /\ all_collections' = all_collections \o response.items
           /\ cursor' = response.cursor
    /\ error_count' = 0
    /\ UNCHANGED <<fetch_pc, catalog_size, pureVars, progVars>>

\* one loop iteration whose response is ok
ResponseOk(page) ==
    /\ fetch_pc = "loop" /\ LoopCondition /\ Len(exchanges) < MaxRequests
    /\ LET response == SuccessResponse(cursor, PageLimit, page)
       IN  /\ exchanges' = Exchange(response)
           /\ collection_count' = response.count
           /\ all_collections' = all_collections \o response.items
           /\ cursor' = response.cursor
    /\ UNCHANGED <<error_count, fetch_pc, catalog_size, pureVars, progVars>>

\* mutant: a non-success response drops the cursor of the pending request
ResponseError_DropsCursor ==
    /\ fetch_pc = "loop" /\ LoopCondition /\ Len(exchanges) < MaxRequests
    /\ exchanges' = Exchange(ErrorResponse)
    /\ error_count' = error_count + 1
    /\ cursor' = NoCursor
    /\ UNCHANGED <<collection_count, all_collections, fetch_pc,
                   catalog_size, pureVars, progVars>>

\* one loop iteration whose response is not ok
ResponseError ==
    /\ fetch_pc = "loop" /\ LoopCondition /\ Len(exchanges) < MaxRequests
    /\ exchanges' = Exchange(ErrorResponse)
    /\ error_count' = error_count + 1
    /\ UNCHANGED <<collection_count, all_collections, cursor, fetch_pc,
                   catalog_size, pureVars, progVars>>

\* the loop ends: return all_collections
ReturnCollections ==
    /\ fetch_pc = "loop" /\ ~LoopCondition
    /\ fetch_pc' = "returned"
    /\ UNCHANGED <<collection_count, all_collections, error_count, cursor,
                   catalog_size, exchanges, pureVars,
                   progVars>>

NextFetch ==
    \/ \E page \in {"full", "short", "empty"} : ResponseOk(page)
    \/ ResponseError
    \/ ReturnCollections

SpecFetch == InitFetch /\ [][NextFetch]_vars

----------------------------------------------------------------------------
(* Claims about query_cmr_graph_for_collections (SpecFetch) *)

\* every response so far was a success handing back the full next page
ServerWellBehaved ==
    /\ catalog_size > 0
    /\ \A i \in 1..Len(exchanges) :
          /\ exchanges[i].response.ok
          /\ exchanges[i].response.page = "full"
          /\ exchanges[i].response.count = catalog_size

CeilDiv(a, b) == (a + b - 1) \div b

\* C1: against a server whose every response is a success with the same
\* total N > 0 and the full next page of at most 100 items, the first request
\* carries no cursor, every later request carries the cursor of the response
\* before it, and the fetch returns the N items in server order after exactly
\* ceil(N/100) requests.
C1_WellBehavedServerPagination ==
    ServerWellBehaved =>
        /\ \A i \in 1..Len(exchanges) :
              exchanges[i].cursor =
                  IF i = 1 THEN NoCursor ELSE exchanges[i - 1].response.cursor
        /\ Len(exchanges) <= CeilDiv(catalog_size, PageLimit)
        /\ fetch_pc = "returned" =>
              /\ all_collections = [i \in 1..catalog_size |-> i]
              /\ Len(exchanges) = CeilDiv(catalog_size, PageLimit)

\* C1 witness: a catalog of 250 was returned after pages of 100, 100 and 50
C1_Witness ==
    /\ ServerWellBehaved
    /\ fetch_pc = "returned"
    /\ catalog_size = 250
    /\ Len(all_collections) = 250
    /\ Len(exchanges) = 3
    /\ Len(exchanges[1].response.items) = 100
    /\ Len(exchanges[2].response.items) = 100
    /\ Len(exchanges[3].response.items) = 50

FailedExchanges == {i \in 1..Len(exchanges) : ~exchanges[i].response.ok}

RECURSIVE ItemsReceived(_)
\* the items of the first n responses, in the order received
ItemsReceived(n) ==
    IF n = 0 THEN <<>>
    ELSE ItemsReceived(n - 1) \o exchanges[n].response.items

\* C2: the error budget is 3 non-success responses over the whole fetch,
\* never reset by a success: the counter is the number of non-success
\* responses so far, no request follows the 3rd of them, the fetch then
\* returns (it does not raise) exactly the items of the success responses,
\* and with only non-success responses it returns [] after 3 requests.
C2_ErrorBudget ==
    /\ error_count = Cardinality(FailedExchanges)
    /\ Cardinality(FailedExchanges) <= max_errors
    /\ Cardinality(FailedExchanges) = max_errors =>
          /\ Len(exchanges) \in FailedExchanges
          /\ fetch_pc = "returned" \/ ENABLED ReturnCollections
    /\ all_collections = ItemsReceived(Len(exchanges))
    /\ (fetch_pc = "returned" /\ FailedExchanges = 1..Len(exchanges)) =>
          /\ Len(exchanges) = max_errors
          /\ all_collections = <<>>

\* C2 witness: the fetch returned a partial list after three non-success
\* responses that had success responses between them
C2_Witness ==
    /\ fetch_pc = "returned"
    /\ FailedExchanges = {1, 3, 5}
    /\ all_collections = <<1, 2>>
    /\ Len(all_collections) < collection_count

\* the step appends an exchange whose response is not ok
ErrorStep ==
    /\ Len(exchanges') = Len(exchanges) + 1
    /\ ~exchanges'[Len(exchanges')].response.ok

\* every request after a non-success response carries the cursor of the
\* request that failed
RetriesCarrySameCursor ==
    \A i \in FailedExchanges :
        i < Len(exchanges) => exchanges[i + 1].cursor = exchanges[i].cursor

\* the accumulated list is a prefix of the catalog in server order
NoPageSkippedOrRepeated ==
    all_collections = [i \in 1..Len(all_collections) |-> i]

\* C12: a non-success response changes only the error counter (the
\* accumulated list, the remembered total and the cursor of the pending
\* request stay as they were), the retry carries the same cursor, and the
\* accumulated list never skips or repeats a collection of the catalog.
C12_ErrorChangesOnlyErrorCount ==
    /\ [](RetriesCarrySameCursor /\ NoPageSkippedOrRepeated)
    /\ [][ErrorStep =>
            /\ error_count' = error_count + 1
            /\ all_collections' = all_collections
            /\ collection_count' = collection_count
            /\ cursor' = cursor
            /\ fetch_pc' = fetch_pc]_vars

\* C12 witness: a catalog of 250 was returned whole although the requests
\* with cursors 100 and 200 each failed once and were sent again
C12_Witness ==
    /\ fetch_pc = "returned"
    /\ catalog_size = 250
    /\ Len(exchanges) = 5
    /\ FailedExchanges = {2, 4}
    /\ exchanges[2].cursor = 100 /\ exchanges[3].cursor = 100
    /\ exchanges[4].cursor = 200 /\ exchanges[5].cursor = 200
    /\ all_collections = [i \in 1..250 |-> i]

----------------------------------------------------------------------------
(* The loop of query_cmr_graph_for_collections, one request at a time.
   The history of exchanges is not kept (the loop does not keep it either),
   so the loop runs without a bound on the number of requests. *)

\* the while condition holds: requests.post(...) is sent
SendRequest ==
    /\ fetch_pc = "loop" /\ LoopCondition
    /\ fetch_pc' = "awaiting"
    /\ UNCHANGED <<collection_count, all_collections, error_count, cursor,
                   catalog_size, exchanges, pureVars, progVars>>

\* the response is ok: count, items and cursor are taken from it
ReceiveOk(page) ==
    /\ fetch_pc = "awaiting"
    /\ LET response == SuccessResponse(cursor, PageLimit, page)
       IN  /\ collection_count' = response.count
           /\ all_collections' = all_collections \o response.items
           /\ cursor' = response.cursor
    /\ fetch_pc' = "loop"
    /\ UNCHANGED <<error_count, catalog_size, exchanges, pureVars, progVars>>

\* the response is not ok
ReceiveError ==
    /\ fetch_pc = "awaiting"
    /\ error_count' = error_count + 1
    /\ fetch_pc' = "loop"
    /\ UNCHANGED <<collection_count, all_collections, cursor, catalog_size,
                   exchanges, pureVars, progVars>>

\* some response arrives
ReceiveResponse ==
    \/ \E page \in {"full", "short", "empty"} : ReceiveOk(page)
    \/ ReceiveError

NextLoop ==
    \/ SendRequest
    \/ ReceiveResponse
    \/ ReturnCollections

\* The program keeps running and every request is answered; nothing is
\* assumed about what the server answers.
SpecLoop ==
    /\ InitFetch
    /\ [][NextLoop]_vars
    /\ WF_vars(SendRequest)
    /\ WF_vars(ReceiveResponse)
    /\ WF_vars(ReturnCollections)

\* C11: every call of query_cmr_graph_for_collections terminates whatever
\* the server answers: after finitely many requests the accumulated list
\* has reached the reported count or the error budget is exhausted, and the
\* function returns.
C11_FetchTerminates == <>(fetch_pc = "returned")


----------------------------------------------------------------------------
(* get_collections_with_opendap.py: the OPeNDAP predicate and filter *)

\* The except clause of get_collection_related_urls: it prints
\* collection["shortName"] and re-raises; the subscript itself raises when
\* the collection is no mapping (TypeError) or has no shortName (KeyError).
AttributeErrorHandler(collection) ==
    IF ~IsDict(collection) THEN Raise("TypeError")
    ELSE IF "shortName" \notin DOMAIN collection.v THEN Raise("KeyError")
    ELSE Raise("AttributeError")

\* granules[0].get('relatedUrls', []) after `granules == [] or granules is
\* None` replaced the granule list by [{}]
FirstGranuleRelatedUrls(items) ==
    LET granules == IF IsNull(items) \/ items = List(<<>>)
                    THEN List(<<EmptyDict>>) ELSE items
    IN  Return(DictGet(granules.v[1], "relatedUrls", List(<<>>)))

get_collection_related_urls(collection) ==
    IF ~IsDict(collection) THEN AttributeErrorHandler(collection)
    ELSE LET got == DictGet(collection, "granules", EmptyDict)
             granules == IF IsNull(got) THEN EmptyDict ELSE got
         IN  IF ~IsDict(granules) THEN AttributeErrorHandler(collection)
             ELSE FirstGranuleRelatedUrls(DictGet(granules, "items", Null))

\* mutant: the subtype test left out
RelatedUrlIsOpendap_NoSubtype(related_url, hyrax_substring) ==
    /\ "type" \in DOMAIN related_url.v
    /\ related_url.v["type"] = "USE SERVICE API"
    /\ StrContains(hyrax_substring, DictGet(related_url, "url", <<>>))

\* one term of the any(...) of collection_has_opendap_url
RelatedUrlIsOpendap(related_url, hyrax_substring) ==
    /\ "type" \in DOMAIN related_url.v
    /\ related_url.v["type"] = "USE SERVICE API"
    /\ "subtype" \in DOMAIN related_url.v
    /\ related_url.v["subtype"] = "OPENDAP DATA"
    /\ StrContains(hyrax_substring, DictGet(related_url, "url", <<>>))

collection_has_opendap_url(collection, environment) ==
    LET hyrax_substring == environment_parameters[environment].hyrax_substring
        urls == get_collection_related_urls(collection)
    IN  IF urls.kind = "raise" THEN urls
        ELSE IF IsNull(urls.value) THEN Raise("TypeError")   \* iterating None
        ELSE Return(\E i \in 1..Len(urls.value.v) :
                        RelatedUrlIsOpendap(urls.value.v[i], hyrax_substring))

\* mutant: the filter keeps the collections the predicate rejects
filter_for_opendap_granules_Negated(collections, environment) ==
    LET outcome(i) == collection_has_opendap_url(collections[i], environment)
        raising == {i \in 1..Len(collections) : outcome(i).kind = "raise"}
        first == CHOOSE i \in raising : \A j \in raising : i <= j
        keep(collection) ==
            ~collection_has_opendap_url(collection, environment).value
    IN  IF raising # {} THEN outcome(first)
        ELSE Return(SelectSeq(collections, keep))

\* The list comprehension of filter_for_opendap_granules: the first
\* collection whose predicate raises ends the call with that error.
filter_for_opendap_granules(collections, environment) ==
    LET outcome(i) == collection_has_opendap_url(collections[i], environment)
        raising == {i \in 1..Len(collections) : outcome(i).kind = "raise"}
        first == CHOOSE i \in raising : \A j \in raising : i <= j
        keep(collection) ==
            collection_has_opendap_url(collection, environment).value
    IN  IF raising # {} THEN outcome(first)
        ELSE Return(SelectSeq(collections, keep))

----------------------------------------------------------------------------
(* Inputs of the predicate: collections as the GraphQL query returns them *)

MaxRelatedUrls == 2

\* the sequences over S of length at most n
SeqsUpTo(S, n) == UNION {[1..k -> S] : k \in 0..n}

\* a dict entry that may be absent
Optional(key, S) == {<<>>} \cup {key :> x : x \in S}

ConceptIdA == <<"C", "1", "-", "P", "O", "C", "L", "O", "U", "D">>

UrlSamples ==
    { <<"https://", "opendap.", "earthdata.nasa.gov", "/x">>,
      <<"https://", "opendap.", "uat.", "earthdata.nasa.gov", "/x">>,
      <<"https://", "opendap.", "sit.", "earthdata.nasa.gov", "/x">>,
      <<"https://", "opendap.", "/x", "earthdata.nasa.gov">> }

RelatedUrlSamples ==
    { Dict(t @@ s @@ u) :
        t \in Optional("type", {"USE SERVICE API", "GET DATA"}),
        s \in Optional("subtype", {"OPENDAP DATA", "USER'S GUIDE"}),
        u \in Optional("url", UrlSamples) }

\* a later granule whose related URLs satisfy the predicate in every environment
DecoyGranule ==
    Dict("relatedUrls" :> List(
        [i \in 1..3 |->
            Dict(("type" :> "USE SERVICE API") @@ ("subtype" :> "OPENDAP DATA")
                 @@ ("url" :> CASE i = 1 -> <<"opendap.", "earthdata.nasa.gov">>
                                [] i = 2 -> <<"opendap.", "uat.", "earthdata.nasa.gov">>
                                [] i = 3 -> <<"opendap.", "sit.", "earthdata.nasa.gov">>))]))

\* a first granule that carries the related URLs `urls`
FirstGranule(urls) == Dict("relatedUrls" :> List(urls))

\* first granules without a list of related URLs: the key absent, or null
FirstGranuleSamples == {EmptyDict, Dict("relatedUrls" :> Null)}

\* `granules` whose first item is g, alone or followed by a later granule
GranulesWith(g) ==
    {Dict("items" :> List(<<g>>)), Dict("items" :> List(<<g, DecoyGranule>>))}

GranulesSamples ==
    {EmptyDict, Dict("items" :> Null), Dict("items" :> List(<<>>))}
    \cup UNION {GranulesWith(g) : g \in FirstGranuleSamples}

CollectionIdentity ==
    ("shortName" :> "SN_A") @@ ("version" :> "1") @@ ("conceptId" :> ConceptIdA)

CollectionWith(granules) == Dict(CollectionIdentity @@ ("granules" :> granules))

\* collections without related URLs in their first granule, then the
\* malformed ones: `granules` no mapping (with and without a shortName), and
\* a collection that is no mapping
CollectionSamples ==
    {Dict(CollectionIdentity)}
    \cup {CollectionWith(g) : g \in {Null} \cup GranulesSamples}
    \cup {Dict(CollectionIdentity @@ ("granules" :> List(<<>>))),
          Dict(("conceptId" :> ConceptIdA) @@ ("granules" :> List(<<>>))),
          Null}

Environments == {PROD, UAT, SIT}

----------------------------------------------------------------------------
(* Specification of collection_has_opendap_url as a single call *)

PredicateCall(c, e) ==
    [op |-> "collection_has_opendap_url", collection |-> c, environment |-> e]

\* the collection is one of CollectionSamples, or its first granule carries
\* up to MaxRelatedUrls related URLs
InitPredicate ==
    /\ \E e \in Environments :
          \/ \E c \in CollectionSamples : call = PredicateCall(c, e)
          \/ \E k \in 0..MaxRelatedUrls : \E urls \in [1..k -> RelatedUrlSamples] :
                \E g \in GranulesWith(FirstGranule(urls)) :
                    call = PredicateCall(CollectionWith(g), e)
    /\ ret = NotCalled
    /\ FetchIdle
    /\ ProgIdle

CallHasOpendapUrl ==
    /\ ret.kind = "pending"
    /\ ret' = collection_has_opendap_url(call.collection, call.environment)
    /\ UNCHANGED <<call, fetchVars, progVars>>

NextPredicate == CallHasOpendapUrl

SpecPredicate == InitPredicate /\ [][NextPredicate]_vars

----------------------------------------------------------------------------
(* Claims about collection_has_opendap_url (SpecPredicate) *)

\* the related URLs of the first granule as the data holds them: none when
\* any level on the way is absent, null, empty or no mapping
FirstGranuleUrlsOf(collection) ==
    IF ~IsDict(collection) \/ "granules" \notin DOMAIN collection.v THEN <<>>
    ELSE LET g == collection.v["granules"] IN
    IF ~IsDict(g) \/ "items" \notin DOMAIN g.v THEN <<>>
    ELSE LET items == g.v["items"] IN
    IF IsNull(items) \/ Len(items.v) = 0 THEN <<>>
    ELSE LET first == items.v[1] IN
    IF "relatedUrls" \notin DOMAIN first.v \/ IsNull(first.v["relatedUrls"]) THEN <<>>
    ELSE first.v["relatedUrls"].v

HasKeyWithValue(d, key, value) == key \in DOMAIN d.v /\ d.v[key] = value

UrlPointsAtHyrax(d, environment) ==
    /\ "url" \in DOMAIN d.v
    /\ StrContains(environment_parameters[environment].hyrax_substring, d.v["url"])

ConditionsMet(d, environment) ==
    <<HasKeyWithValue(d, "type", "USE SERVICE API"),
      HasKeyWithValue(d, "subtype", "OPENDAP DATA"),
      UrlPointsAtHyrax(d, environment)>>

\* the collection with every granule after the first removed
OnlyFirstGranule(collection) ==
    LET g == collection.v["granules"]
    IN  Dict([collection.v EXCEPT !["granules"] =
                Dict([g.v EXCEPT !["items"] = List(<<g.v["items"].v[1]>>)])])

HasLaterGranules(collection) ==
    /\ IsDict(collection) /\ "granules" \in DOMAIN collection.v
    /\ IsDict(collection.v["granules"])
    /\ "items" \in DOMAIN collection.v["granules"].v
    /\ ~IsNull(collection.v["granules"].v["items"])
    /\ Len(collection.v["granules"].v["items"].v) > 1

Called == ret.kind # "pending"

ReturnedTrue == ret.kind = "return" /\ ret.value = TRUE

ReturnedFalse == ret.kind = "return" /\ ret.value = FALSE

\* C3: collection_has_opendap_url returns true exactly when some related URL
\* of the first granule has type 'USE SERVICE API', subtype 'OPENDAP DATA' and
\* a url containing the environment's hyrax substring; granules after the
\* first do not change the outcome; and with exactly one related URL the
\* result is true when all three conditions hold and false when one fails.
C3_TrueIffFirstGranuleUrlMatches ==
    Called =>
        LET urls == FirstGranuleUrlsOf(call.collection)
            env == call.environment
        IN  /\ ReturnedTrue <=>
                \E i \in 1..Len(urls) :
                    ConditionsMet(urls[i], env) = <<TRUE, TRUE, TRUE>>
            /\ HasLaterGranules(call.collection) =>
                ret = collection_has_opendap_url(
                          OnlyFirstGranule(call.collection), env)
            /\ Len(urls) = 1 =>
                IF ConditionsMet(urls[1], env) = <<TRUE, TRUE, TRUE>>
                THEN ReturnedTrue ELSE ReturnedFalse

\* C3 witness: true is returned for a collection whose first granule has two
\* related URLs of which only the second meets the three conditions, and
\* which has a second granule
C3_Witness ==
    /\ ReturnedTrue
    /\ HasLaterGranules(call.collection)
    /\ LET urls == FirstGranuleUrlsOf(call.collection)
       IN  /\ Len(urls) = 2
           /\ ConditionsMet(urls[1], call.environment) = <<TRUE, FALSE, TRUE>>
           /\ ConditionsMet(urls[2], call.environment) = <<TRUE, TRUE, TRUE>>

\* the shapes of absent granule data C4 lists
GranuleDataAbsent(collection) ==
    /\ IsDict(collection)
    /\ \/ "granules" \notin DOMAIN collection.v
       \/ IsNull(collection.v["granules"])
       \/ /\ IsDict(collection.v["granules"])
          /\ LET g == collection.v["granules"] IN
             \/ "items" \notin DOMAIN g.v
             \/ IsNull(g.v["items"])
             \/ g.v["items"] = List(<<>>)
             \/ LET first == g.v["items"].v[1] IN
                \/ "relatedUrls" \notin DOMAIN first.v
                \/ IsNull(first.v["relatedUrls"])
                \/ first.v["relatedUrls"] = List(<<>>)

\* C4: for a collection whose granule data is absent (no granules, null
\* granules, absent, null or empty items, or a first granule whose relatedUrls
\* is absent, null or empty) the predicate returns false and raises nothing.
C4_AbsentGranuleDataIsFalse ==
    (Called /\ GranuleDataAbsent(call.collection)) => ReturnedFalse

\* inspecting the granules ends in an attribute error: the collection, or
\* its non-null `granules` value, is no mapping and so has no `get`
InspectionRaisesAttributeError(collection) ==
    \/ ~IsDict(collection)
    \/ /\ "granules" \in DOMAIN collection.v
       /\ ~IsNull(collection.v["granules"])
       /\ ~IsDict(collection.v["granules"])

\* C13: when inspecting a collection's granules raises an attribute error,
\* the predicate never returns a result: the attribute error itself
\* propagates, whether or not the collection has a shortName.
C13_AttributeErrorPropagates ==
    (Called /\ InspectionRaisesAttributeError(call.collection)) =>
        ret = Raise("AttributeError")

----------------------------------------------------------------------------
(* Specification of filter_for_opendap_granules as a single call *)

MaxCollections == 3

ConceptIdB == <<"C", "2", "-", "O", "T", "H", "E", "R">>

ConceptIdC == <<"C", "3", "-", "P", "O", "C", "L", "O", "U", "D">>

ConceptIdD == <<"c", "4", "-", "p", "o", "c", "l", "o", "u", "d">>

\* a collection as the GraphQL query returns it, with one granule
Collection(shortName, conceptId, relatedUrls) ==
    Dict(("shortName" :> shortName) @@ ("version" :> "1")
         @@ ("conceptId" :> conceptId)
         @@ ("granules" :> Dict("items" :> List(
                <<Dict("relatedUrls" :> relatedUrls)>>))))

OpendapUrl(environment) ==
    Dict(("type" :> "USE SERVICE API") @@ ("subtype" :> "OPENDAP DATA")
         @@ ("url" :> <<"https://">>
                      \o environment_parameters[environment].hyrax_substring
                      \o <<"/x">>))

DownloadUrl ==
    Dict(("type" :> "GET DATA")
         @@ ("url" :> <<"https://", "data.", "earthdata.nasa.gov", "/x">>))

CollectionA == Collection("SN_A", ConceptIdA, List(<<DownloadUrl, OpendapUrl(PROD)>>))

CollectionB == Collection("SN_B", ConceptIdB, List(<<OpendapUrl(UAT)>>))

CollectionC == Collection("SN_C", ConceptIdC, List(<<OpendapUrl(PROD), OpendapUrl(UAT)>>))

CollectionD == Collection("SN_D", ConceptIdD, List(<<DownloadUrl>>))

\* no granules at all
CollectionE ==
    Dict(("shortName" :> "SN_E") @@ ("version" :> "1")
         @@ ("conceptId" :> ConceptIdB) @@ ("granules" :> Null))

\* a first granule whose relatedUrls is null
CollectionN == Collection("SN_N", ConceptIdC, Null)

FilterSamples ==
    {CollectionA, CollectionB, CollectionC, CollectionD, CollectionE, CollectionN}

InitFilter ==
    /\ call \in {[op |-> "filter_for_opendap_granules",
                  collections |-> cs, environment |-> e] :
                    cs \in SeqsUpTo(FilterSamples, MaxCollections),
                    e \in Environments}
    /\ ret = NotCalled
    /\ FetchIdle
    /\ ProgIdle

CallFilter ==
    /\ ret.kind = "pending"
    /\ ret' = filter_for_opendap_granules(call.collections, call.environment)
    /\ UNCHANGED <<call, fetchVars, progVars>>

NextFilter == CallFilter

SpecFilter == InitFilter /\ [][NextFilter]_vars

----------------------------------------------------------------------------
(* Claims about filter_for_opendap_granules (SpecFilter) *)

\* the positions of the input the predicate accepts, and the k-th of them
AcceptedPositions ==
    {i \in 1..Len(call.collections) :
        collection_has_opendap_url(call.collections[i], call.environment)
            = Return(TRUE)}

NthAccepted(k) ==
    CHOOSE i \in AcceptedPositions :
        Cardinality({j \in AcceptedPositions : j < i}) = k - 1

ConceptIdsOf(collections) ==
    {collections[i].v["conceptId"] : i \in 1..Len(collections)}

FilterReturnsSubsequence ==
    (Called /\ ret.kind = "return") =>
        /\ Len(ret.value) = Cardinality(AcceptedPositions)
        /\ \A k \in 1..Len(ret.value) :
              ret.value[k] = call.collections[NthAccepted(k)]
        /\ Len(ret.value) <= Len(call.collections)
        /\ ConceptIdsOf(ret.value) \subseteq ConceptIdsOf(call.collections)

FilterRaisesOnlyWithPredicate ==
    (Called /\ ret.kind = "raise") =>
        \E i \in 1..Len(call.collections) :
            collection_has_opendap_url(call.collections[i], call.environment) = ret

\* C5: filter_for_opendap_granules returns exactly the input's elements the
\* predicate accepts, in input order (so it is no longer than the input and
\* every returned conceptId is an input conceptId); it ends in an error only
\* when the predicate raises on an element; the input list is never changed.
C5_FilterIsSubsequence ==
    /\ [](FilterReturnsSubsequence /\ FilterRaisesOnlyWithPredicate)
    /\ [][call' = call]_vars

\* C5 witness: of three input collections the filter returned the first and
\* the third, dropping the second
C5_Witness ==
    /\ ret.kind = "return"
    /\ Len(call.collections) = 3
    /\ ret.value = <<call.collections[1], call.collections[3]>>
    /\ call.collections[2] \notin {call.collections[1], call.collections[3]}

----------------------------------------------------------------------------
(* The working directory and the I/O of an entry point *)

\* json.dump followed by json.load gives back the same lists, dicts, strings
\* and nulls, so a file's content is the JSON value written to it.
Missing == [t |-> "missing"]

AllCollectionsFile(environment) == <<"all_collections_", environment, ".json">>

OpendapCollectionsFile(environment) == <<"opendap_collections_", environment, ".json">>

\* a file of the operator's own, given as file_path
OtherFile == <<"other", <<>>, ".json">>

\* file_path=None
NoFilePath == <<"", <<>>, "">>

FileNames ==
    {AllCollectionsFile(e) : e \in {PROD, UAT, SIT}}
    \cup {OpendapCollectionsFile(e) : e \in {PROD, UAT, SIT}}
    \cup {OtherFile}

HttpRequest(method, target, payload, ok) ==
    [kind |-> "http", method |-> method, target |-> target,
     payload |-> payload, ok |-> ok]

FileAccess(mode, name) == [kind |-> "file", mode |-> mode, name |-> name]

\* what an entry point has done when it ends: the directory, the I/O in
\* order, and how it ended
Ended(directory, io, outcome) ==
    [files |-> directory, io |-> io, outcome |-> outcome]

----------------------------------------------------------------------------
(* Reading files: `content` is the named file's content, or Missing *)

\* get_all_collections_from_file: open() raises when the file is missing
get_all_collections_from_file(content) ==
    IF content = Missing THEN Raise("FileNotFoundError") ELSE Return(content)

\* manage_associations.read_all_collections
read_all_collections(content) ==
    IF content = Missing THEN Raise("FileNotFoundError") ELSE Return(content)

\* read_json_list: the except clause prints and falls through to
\* `return data` with data never assigned
read_json_list(content) ==
    IF content = Missing THEN Raise("UnboundLocalError") ELSE Return(content)

IsWhitespace(ch) == ch \in {" ", "\n", "\t"}

RECURSIVE StripLeft(_)
StripLeft(line) ==
    IF line # <<>> /\ IsWhitespace(Head(line)) THEN StripLeft(Tail(line)) ELSE line

RECURSIVE StripRight(_)
StripRight(line) ==
    IF line # <<>> /\ IsWhitespace(line[Len(line)])
    THEN StripRight(SubSeq(line, 1, Len(line) - 1)) ELSE line

\* str.strip()
Strip(line) == StripRight(StripLeft(line))

\* read_text_file_to_list: the except clause prints and the entries
\* collected so far, none, are returned
read_text_file_to_list(content) ==
    IF content = Missing THEN Return(List(<<>>))
    ELSE Return(List([i \in 1..Len(content.v) |-> Strip(content.v[i])]))

----------------------------------------------------------------------------
(* get_collections_with_opendap.py: get_collections_with_opendap_urls *)

get_formatted_collection(collection) ==
    Dict(("short_name" :> collection.v["shortName"])
         @@ ("version" :> collection.v["version"])
         @@ ("concept_id" :> collection.v["conceptId"]))

\* get_edl_token: GET the user's tokens; with none, POST for a new one.
\* token_case is what the identity provider answers.
get_edl_token(environment, token_case) ==
    LET edl_root == environment_parameters[environment].edl_root
        get == HttpRequest("GET", <<edl_root, "/api/users/tokens">>, <<>>,
                           token_case # "get_fails")
        post == HttpRequest("POST", <<edl_root, "/api/users/token">>, <<>>,
                            token_case # "post_fails")
    IN  CASE token_case = "get_fails" -> [io |-> <<get>>, outcome |-> Raise("HTTPError")]
          [] token_case = "existing" -> [io |-> <<get>>, outcome |-> Return("token")]
          [] token_case = "new" -> [io |-> <<get, post>>, outcome |-> Return("token")]
          [] token_case = "post_fails" ->
                [io |-> <<get, post>>, outcome |-> Raise("HTTPError")]

\* lines 312-318: filter, then save_opendap_collections
FilterAndSave(directory, io, all_cloud_collections, environment) ==
    LET opendap_collections ==
            filter_for_opendap_granules(all_cloud_collections, environment)
        output_filename == OpendapCollectionsFile(environment)
        formatted_output ==
            [i \in 1..Len(opendap_collections.value) |->
                get_formatted_collection(opendap_collections.value[i])]
    IN  IF opendap_collections.kind = "raise"
        THEN Ended(directory, io, opendap_collections)
        ELSE Ended([directory EXCEPT ![output_filename] = List(formatted_output)],
                   Append(io, FileAccess("w", output_filename)),
                   Return(Null))

\* mutant: save_all_collections drops the first fetched collection
FetchBranch_SavesTail(directory, io, fetched, environment) ==
    LET file_path == AllCollectionsFile(environment)
        saved == IF fetched = <<>> THEN <<>> ELSE Tail(fetched)
    IN  FilterAndSave(
            [directory EXCEPT ![file_path] = List(saved)],
            io \o <<HttpRequest("POST", <<environment_parameters[environment].graphql>>,
                                <<>>, TRUE),
                    FileAccess("w", file_path)>>,
            fetched, environment)

\* lines 303-307: the fresh run. `fetched` is what
\* query_cmr_graph_for_collections returned (SpecFetch models its exchanges;
\* here they are one logged request); save_all_collections writes it.
FetchBranch(directory, io, fetched, environment) ==
    LET file_path == AllCollectionsFile(environment)
    IN  FilterAndSave(
            [directory EXCEPT ![file_path] = List(fetched)],
            io \o <<HttpRequest("POST", <<environment_parameters[environment].graphql>>,
                                <<>>, TRUE),
                    FileAccess("w", file_path)>>,
            fetched, environment)

\* line 309: get_all_collections_from_file(file_path)
FileBranch(directory, io, file_path, environment) ==
    LET all_cloud_collections == get_all_collections_from_file(directory[file_path])
        read == Append(io, FileAccess("r", file_path))
    IN  IF all_cloud_collections.kind = "raise"
        THEN Ended(directory, read, all_cloud_collections)
        ELSE FilterAndSave(directory, read, all_cloud_collections.value.v,
                           environment)

\* mutant: the environment is validated as given, and used lower-cased
get_collections_with_opendap_urls_NoLower(directory, environment_arg, file_path, token_case, fetched) ==
    LET environment == Lower(environment_arg)
        token == get_edl_token(environment, token_case)
    IN  IF environment_arg \notin {SIT, UAT, PROD}
        THEN Ended(directory, <<>>, Raise("ValueError"))
        ELSE IF token.outcome.kind = "raise"
        THEN Ended(directory, token.io, token.outcome)
        ELSE IF file_path = NoFilePath
        THEN FetchBranch(directory, token.io, fetched, environment)
        ELSE FileBranch(directory, token.io, file_path, environment)

get_collections_with_opendap_urls(directory, environment_arg, file_path, token_case, fetched) ==
    LET environment == Lower(environment_arg)
        token == get_edl_token(environment, token_case)
    IN  IF environment \notin {SIT, UAT, PROD}
        THEN Ended(directory, <<>>, Raise("ValueError"))
        ELSE IF token.outcome.kind = "raise"
        THEN Ended(directory, token.io, token.outcome)
        ELSE IF file_path = NoFilePath
        THEN FetchBranch(directory, token.io, fetched, environment)
        ELSE FileBranch(directory, token.io, file_path, environment)

----------------------------------------------------------------------------
(* manage_associations.py and mirror_associations.py *)

CMR_URLS == (UAT :> "https://cmr.uat.earthdata.nasa.gov")
            @@ (PROD :> "https://cmr.earthdata.nasa.gov")

OPENDAP_CONCEPT_IDS == (UAT :> "S1262134530-EEDTEST")
                       @@ (PROD :> "S2874702816-XYZ_PROV")

\* the URL {base_cmr_url}/search/services/{umm_s_concept_id}/associations
AssociationsUrl(base_cmr_url, umm_s_concept_id) ==
    <<base_cmr_url, "/search/services/", umm_s_concept_id, "/associations">>

\* the URL {base_cmr_url}/search/services.umm_json?concept_id=...
ServiceSearchUrl(base_cmr_url, umm_s_concept_id) ==
    <<base_cmr_url, "/search/services.umm_json", umm_s_concept_id>>

\* manage_associations.get_provider_collections, on the records read
ProviderCollections(collections_read, collection_provider) ==
    LET collection_provider_lower == Lower(collection_provider)
        selected == SelectSeq(collections_read,
            LAMBDA collection :
                EndsWith(Lower(DictGet(collection, "concept_id", <<>>)),
                         collection_provider_lower))
    IN  [i \in 1..Len(selected) |-> selected[i].v["concept_id"]]

\* mutant: the concept IDs are compared as written
AssociatedCollections_CaseSensitive(collections, collection_provider) ==
    SelectSeq(collections,
        LAMBDA collection : EndsWith(collection, collection_provider))

\* mirror_associations.get_associated_collections, on the associated IDs
AssociatedCollections(collections, collection_provider) ==
    LET collection_provider_lower == Lower(collection_provider)
    IN  SelectSeq(collections,
            LAMBDA collection :
                EndsWith(Lower(collection), collection_provider_lower))

\* get_short_names_for_pocloud
POCLOUD == <<"P", "O", "C", "L", "O", "U", "D">>

get_short_names_for_pocloud(data) ==
    LET selected == SelectSeq(data,
            LAMBDA item : EndsWith(item.v["concept_id"], POCLOUD))
    IN  [i \in 1..Len(selected) |-> selected[i].v["short_name"]]

\* mutant: the environment check comes after the collections were read
make_opendap_associations_LateCheck(directory, collection_provider, environment, create_ok) ==
    LET json_file_name == OpendapCollectionsFile(environment)
        read == <<FileAccess("r", json_file_name)>>
    IN  IF json_file_name \notin DOMAIN directory
        THEN Ended(directory, read, Raise("FileNotFoundError"))
        ELSE IF directory[json_file_name] = Missing
        THEN Ended(directory, read, Raise("FileNotFoundError"))
        ELSE IF environment \notin DOMAIN CMR_URLS
        THEN Ended(directory, read, Raise("Exception"))
        ELSE Ended(directory,
                   Append(read, HttpRequest("POST",
                       AssociationsUrl(CMR_URLS[environment],
                                       OPENDAP_CONCEPT_IDS[environment]),
                       ProviderCollections(directory[json_file_name].v,
                                           collection_provider),
                       create_ok)),
                   IF create_ok THEN Return(Null) ELSE Raise("HTTPError"))

\* make_opendap_associations: the environment check, read_all_collections
\* inside get_provider_collections, then create_associations
make_opendap_associations(directory, collection_provider, environment, create_ok) ==
    LET json_file_name == OpendapCollectionsFile(environment)
        read == <<FileAccess("r", json_file_name)>>
        collections_read == read_all_collections(directory[json_file_name])
    IN  IF environment \notin DOMAIN CMR_URLS
           \/ environment \notin DOMAIN OPENDAP_CONCEPT_IDS
        THEN Ended(directory, <<>>, Raise("Exception"))
        ELSE IF collections_read.kind = "raise"
        THEN Ended(directory, read, collections_read)
        ELSE Ended(directory,
                   Append(read, HttpRequest("POST",
                       AssociationsUrl(CMR_URLS[environment],
                                       OPENDAP_CONCEPT_IDS[environment]),
                       ProviderCollections(collections_read.value.v,
                                           collection_provider),
                       create_ok)),
                   IF create_ok THEN Return(Null) ELSE Raise("HTTPError"))

\* The answer to the GET of get_associated_collections: not ok; ok without
\* any item (items[0] raises IndexError, and `raise <str> from IndexError`
\* raises TypeError); ok with an item whose meta holds no associations; ok
\* with the associated collections.
SearchOutcome(search) ==
    CASE search.case = "error" -> Raise("HTTPError")
      [] search.case = "no_items" -> Raise("TypeError")
      [] search.case = "no_associations" -> Return(<<>>)
      [] search.case = "associations" -> Return(search.collections)

\* mutant: create_associations does not check its response
mirror_service_associations_NoCreateCheck(directory, service_with_associations, collection_provider, environment, remove_old_associations, search, create_ok, remove_ok) ==
    LET found == SearchOutcome(search)
        get == HttpRequest("GET",
                   ServiceSearchUrl(CMR_URLS[environment], service_with_associations),
                   <<>>, search.case # "error")
        associated_collections ==
            AssociatedCollections(found.value, collection_provider)
        post == HttpRequest("POST",
                    AssociationsUrl(CMR_URLS[environment],
                                    OPENDAP_CONCEPT_IDS[environment]),
                    associated_collections, create_ok)
        delete == HttpRequest("DELETE",
                      AssociationsUrl(CMR_URLS[environment],
                                      service_with_associations),
                      associated_collections, remove_ok)
    IN  IF environment \notin DOMAIN CMR_URLS
           \/ environment \notin DOMAIN OPENDAP_CONCEPT_IDS
        THEN Ended(directory, <<>>, Raise("Exception"))
        ELSE IF found.kind = "raise" THEN Ended(directory, <<get>>, found)
        ELSE IF ~remove_old_associations
        THEN Ended(directory, <<get, post>>, Return(Null))
        ELSE Ended(directory, <<get, post, delete>>,
                   IF remove_ok THEN Return(Null) ELSE Raise("HTTPError"))

\* mirror_service_associations: the environment check, then
\* get_associated_collections, create_associations and, when asked for,
\* remove_associations, each ending the call when its response is not ok
mirror_service_associations(directory, service_with_associations, collection_provider, environment, remove_old_associations, search, create_ok, remove_ok) ==
    LET found == SearchOutcome(search)
        get == HttpRequest("GET",
                   ServiceSearchUrl(CMR_URLS[environment], service_with_associations),
                   <<>>, search.case # "error")
        associated_collections ==
            AssociatedCollections(found.value, collection_provider)
        post == HttpRequest("POST",
                    AssociationsUrl(CMR_URLS[environment],
                                    OPENDAP_CONCEPT_IDS[environment]),
                    associated_collections, create_ok)
        delete == HttpRequest("DELETE",
                      AssociationsUrl(CMR_URLS[environment],
                                      service_with_associations),
                      associated_collections, remove_ok)
    IN  IF environment \notin DOMAIN CMR_URLS
           \/ environment \notin DOMAIN OPENDAP_CONCEPT_IDS
        THEN Ended(directory, <<>>, Raise("Exception"))
        ELSE IF found.kind = "raise" THEN Ended(directory, <<get>>, found)
        ELSE IF ~create_ok THEN Ended(directory, <<get, post>>, Raise("HTTPError"))
        ELSE IF ~remove_old_associations
        THEN Ended(directory, <<get, post>>, Return(Null))
        ELSE Ended(directory, <<get, post, delete>>,
                   IF remove_ok THEN Return(Null) ELSE Raise("HTTPError"))

----------------------------------------------------------------------------
(* Specification of the entry points, called one after another *)

DEV == <<"d", "e", "v">>

PROD_UPPER == <<"P", "R", "O", "D">>

OTHER_PROVIDER == <<"O", "T", "H", "E", "R">>

ServiceWithAssociations == "S2009180097-POCLOUD"

\* what the catalog may hand to a fresh run
FetchedLists ==
    {<<CollectionA, CollectionD>>, <<CollectionA, CollectionN>>}

Providers == {Lower(POCLOUD), OTHER_PROVIDER}

\* The arguments and the remote answers of one call of
\* get_collections_with_opendap_urls. An answer the call never asks for
\* (the catalog's when a file is read or no token was obtained) is fixed.
GetCollectionsCases ==
    {c \in [environment : {PROD, PROD_UPPER, SIT, DEV},
            file_path : {NoFilePath, AllCollectionsFile(PROD), OtherFile},
            token_case : {"get_fails", "existing", "new", "post_fails"},
            fetched : FetchedLists] :
        (\/ Lower(c.environment) = DEV
         \/ c.file_path # NoFilePath
         \/ c.token_case \in {"get_fails", "post_fails"})
            => c.fetched = <<CollectionA, CollectionD>>}

MakeAssociationsCases ==
    {c \in [collection_provider : Providers,
            environment : {PROD, UAT, SIT, PROD_UPPER},
            create_ok : BOOLEAN] :
        c.environment \notin {PROD, UAT} => c.create_ok}

\* The answers to the GET, the POST and the DELETE of one call of
\* mirror_service_associations; an answer never asked for is fixed.
MirrorAnswers ==
    {a \in [search : [case : {"error", "no_items", "no_associations"},
                      collections : {<<>>}]
                     \cup {[case |-> "associations",
                            collections |-> <<ConceptIdA, ConceptIdB, ConceptIdD>>]},
            create_ok : BOOLEAN, remove_ok : BOOLEAN] :
        /\ a.search.case \in {"error", "no_items"} => a.create_ok
        /\ ~a.create_ok => a.remove_ok}

MirrorAssociationsCases ==
    {c \in [collection_provider : Providers,
            environment : {PROD, UAT, SIT, PROD_UPPER},
            remove_old_associations : BOOLEAN,
            answers : MirrorAnswers] :
        /\ c.environment \notin {PROD, UAT} =>
              c.answers = [search |-> [case |-> "error", collections |-> <<>>],
                           create_ok |-> TRUE, remove_ok |-> TRUE]
        /\ ~c.remove_old_associations => c.answers.remove_ok}

Init ==
    /\ \E other \in {Missing, List(<<CollectionC>>)} :
          files = [name \in FileNames |->
                      IF name = OtherFile THEN other ELSE Missing]
    /\ last = [entry |-> "none"]
    /\ PureIdle
    /\ FetchIdle

\* record the call that just ended
Finish(entry, args, ended) ==
    /\ files' = ended.files
    /\ last' = [entry |-> entry, args |-> args,
                io |-> ended.io, outcome |-> ended.outcome]
    /\ UNCHANGED <<pureVars, fetchVars>>

CallGetCollections ==
    \E c \in GetCollectionsCases :
        Finish("get_collections_with_opendap_urls",
               [environment |-> c.environment, file_path |-> c.file_path],
               get_collections_with_opendap_urls(
                   files, c.environment, c.file_path, c.token_case, c.fetched))

CallMakeAssociations ==
    \E c \in MakeAssociationsCases :
        Finish("make_opendap_associations",
               [environment |-> c.environment,
                collection_provider |-> c.collection_provider],
               make_opendap_associations(
                   files, c.collection_provider, c.environment, c.create_ok))

CallMirrorAssociations ==
    \E c \in MirrorAssociationsCases :
        Finish("mirror_service_associations",
               [environment |-> c.environment,
                collection_provider |-> c.collection_provider,
                service_with_associations |-> ServiceWithAssociations,
                remove_old_associations |-> c.remove_old_associations],
               mirror_service_associations(
                   files, ServiceWithAssociations, c.collection_provider,
                   c.environment, c.remove_old_associations,
                   c.answers.search, c.answers.create_ok, c.answers.remove_ok))

Next ==
    \/ CallGetCollections
    \/ CallMakeAssociations
    \/ CallMirrorAssociations

Spec == Init /\ [][Next]_vars

----------------------------------------------------------------------------
(* Claims about the entry points (Spec) *)

RecordedConceptIds(content) ==
    {content.v[i].v["concept_id"] : i \in 1..Len(content.v)}

RawConceptIds(content) ==
    {content.v[i].v["conceptId"] : i \in 1..Len(content.v)}

\* C6 as stated: whenever both snapshot files of an environment exist, every
\* concept_id recorded in opendap_collections_<environment>.json is the
\* conceptId of a collection in all_collections_<environment>.json.
C6_FilteredSnapshotSubsetOfRaw ==
    \A e \in {PROD, UAT, SIT} :
        (/\ files[AllCollectionsFile(e)] # Missing
         /\ files[OpendapCollectionsFile(e)] # Missing) =>
            RecordedConceptIds(files[OpendapCollectionsFile(e)])
                \subseteq RawConceptIds(files[AllCollectionsFile(e)])

LastCompletedRun ==
    /\ last.entry = "get_collections_with_opendap_urls"
    /\ last.outcome.kind = "return"

\* C6 amended: when a run of get_collections_with_opendap_urls completes,
\* every concept_id in the filtered snapshot it wrote is the conceptId of a
\* collection in the list it filtered: all_collections_<environment>.json,
\* which it has just written, for a fresh run, and the file at file_path for
\* a run given one.
C6_CompletedRunSubsetOfItsSource ==
    LastCompletedRun =>
        LET environment == Lower(last.args.environment)
            source == IF last.args.file_path = NoFilePath
                      THEN AllCollectionsFile(environment)
                      ELSE last.args.file_path
        IN  /\ files[source] # Missing
            /\ files[OpendapCollectionsFile(environment)] # Missing
            /\ RecordedConceptIds(files[OpendapCollectionsFile(environment)])
                  \subseteq RawConceptIds(files[source])

\* C6 witness: a fresh run completed and recorded some but not all of the
\* collections it fetched
C6_Witness ==
    /\ LastCompletedRun
    /\ last.args.file_path = NoFilePath
    /\ LET environment == Lower(last.args.environment)
           recorded == RecordedConceptIds(files[OpendapCollectionsFile(environment)])
       IN  /\ recorded # {}
           /\ recorded # RawConceptIds(files[AllCollectionsFile(environment)])

EnvironmentAccepted ==
    IF last.entry = "get_collections_with_opendap_urls"
    THEN Lower(last.args.environment) \in {SIT, UAT, PROD}
    ELSE last.args.environment \in {UAT, PROD}

\* C8: an entry point given an unrecognised environment raises before any
\* HTTP request and any file access; get_collections_with_opendap_urls
\* recognises sit, uat and prod after lower-casing, make_opendap_associations
\* and mirror_service_associations recognise uat and prod as written, and a
\* recognised environment is not rejected (the first I/O is made).
C8_InvalidEnvironmentRaisesBeforeIO ==
    last.entry # "none" =>
        IF EnvironmentAccepted
        THEN last.io # <<>>
        ELSE /\ last.io = <<>>
             /\ last.outcome =
                   Raise(IF last.entry = "get_collections_with_opendap_urls"
                         THEN "ValueError" ELSE "Exception")

\* C8 witness: make_opendap_associations rejected 'sit' without touching the
\* opendap_collections_sit.json that an earlier run had written
C8_Witness ==
    /\ last.entry = "make_opendap_associations"
    /\ last.args.environment = SIT
    /\ last.outcome = Raise("Exception")
    /\ last.io = <<>>
    /\ files[OpendapCollectionsFile(SIT)] # Missing

IsRequest(event, method, target) ==
    event.kind = "http" /\ event.method = method /\ event.target = target

\* C9: mirror_service_associations issues at most a GET on the source
\* service, then a POST to the environment's canonical service, then a DELETE
\* on the source service, in that order; the DELETE comes only with
\* remove_old_associations and after a successful POST, with the POST's
\* concept IDs; a response that is not ok is the last request made and the
\* call ends raising.
C9_MirrorRequestOrder ==
    (last.entry = "mirror_service_associations" /\ EnvironmentAccepted) =>
        LET io == last.io
            base == CMR_URLS[last.args.environment]
            source == last.args.service_with_associations
            canonical == OPENDAP_CONCEPT_IDS[last.args.environment]
        IN  /\ Len(io) \in 1..3
            /\ IsRequest(io[1], "GET", ServiceSearchUrl(base, source))
            /\ Len(io) >= 2 =>
                  /\ io[1].ok
                  /\ IsRequest(io[2], "POST", AssociationsUrl(base, canonical))
            /\ Len(io) = 3 =>
                  /\ last.args.remove_old_associations
                  /\ io[2].ok
                  /\ IsRequest(io[3], "DELETE", AssociationsUrl(base, source))
                  /\ io[3].payload = io[2].payload
            /\ \A i \in 1..Len(io) :
                  ~io[i].ok => i = Len(io) /\ last.outcome = Raise("HTTPError")

\* C9 witness: GET, POST and DELETE all succeeded, the DELETE carrying the
\* two concept IDs the POST carried
C9_Witness ==
    /\ last.entry = "mirror_service_associations"
    /\ last.outcome.kind = "return"
    /\ Len(last.io) = 3
    /\ last.io[3].method = "DELETE"
    /\ Len(last.io[3].payload) = 2
    /\ last.io[3].payload = last.io[2].payload

----------------------------------------------------------------------------
(* Specification of the file-reading operations as single calls *)

MaxEntries == 2

FormattedSamples ==
    {get_formatted_collection(c) : c \in {CollectionA, CollectionB, CollectionD}}

TextLineSamples ==
    { <<"C", "1", "\n">>, <<" ", "C", " ", "2", " ", "\n">>, <<"\n">> }

JsonFileContents ==
    {Missing} \cup {List(entries) : entries \in SeqsUpTo(FormattedSamples, MaxEntries)}

TextFileContents ==
    {Missing} \cup {List(lines) : lines \in SeqsUpTo(TextLineSamples, MaxEntries)}

InitRead ==
    /\ call \in
          [op : {"get_all_collections_from_file", "read_all_collections",
                 "read_json_list"},
           content : JsonFileContents]
          \cup [op : {"read_text_file_to_list"}, content : TextFileContents]
    /\ ret = NotCalled
    /\ FetchIdle
    /\ ProgIdle

CallRead(op, outcome) ==
    /\ call.op = op
    /\ ret.kind = "pending"
    /\ ret' = outcome
    /\ UNCHANGED <<call, fetchVars, progVars>>

CallGetAllCollectionsFromFile ==
    CallRead("get_all_collections_from_file",
             get_all_collections_from_file(call.content))

CallReadAllCollections ==
    CallRead("read_all_collections", read_all_collections(call.content))

CallReadJsonList ==
    CallRead("read_json_list", read_json_list(call.content))

CallReadTextFileToList ==
    CallRead("read_text_file_to_list", read_text_file_to_list(call.content))

NextRead ==
    \/ CallGetAllCollectionsFromFile
    \/ CallReadAllCollections
    \/ CallReadJsonList
    \/ CallReadTextFileToList

SpecRead == InitRead /\ [][NextRead]_vars

\* C7: every file-reading operation, when the named file does not exist, ends
\* in a raised missing-file error and never returns an empty or default
\* result.
C7_MissingFileRaises ==
    (Called /\ call.content = Missing) => ret = Raise("FileNotFoundError")

----------------------------------------------------------------------------
(* Specification of the provider selections as single calls *)

MaxIds == 3

ConceptIdSamples == {ConceptIdA, ConceptIdB, ConceptIdC, ConceptIdD}

ProviderSamples ==
    {POCLOUD, Lower(POCLOUD), <<"P", "o", "C", "l", "o", "u", "d">>, OTHER_PROVIDER}

\* a record of opendap_collections_<environment>.json; the short name is
\* taken to be the concept ID's first two characters
FormattedRecord(concept_id) ==
    Dict(("short_name" :> SubSeq(concept_id, 1, 2)) @@ ("version" :> "1")
         @@ ("concept_id" :> concept_id))

InitSelect ==
    /\ call \in
          [op : {"get_provider_collections", "get_associated_collections"},
           ids : SeqsUpTo(ConceptIdSamples, MaxIds),
           provider : ProviderSamples]
          \cup [op : {"get_short_names_for_pocloud"},
                ids : SeqsUpTo(ConceptIdSamples, MaxIds),
                provider : {POCLOUD}]
    /\ ret = NotCalled
    /\ FetchIdle
    /\ ProgIdle

RecordsOf(ids) == [i \in 1..Len(ids) |-> FormattedRecord(ids[i])]

CallGetProviderCollections ==
    CallRead("get_provider_collections",
             Return(ProviderCollections(RecordsOf(call.ids), call.provider)))

CallGetAssociatedCollections ==
    CallRead("get_associated_collections",
             Return(AssociatedCollections(call.ids, call.provider)))

CallGetShortNamesForPocloud ==
    CallRead("get_short_names_for_pocloud",
             Return(get_short_names_for_pocloud(RecordsOf(call.ids))))

NextSelect ==
    \/ CallGetProviderCollections
    \/ CallGetAssociatedCollections
    \/ CallGetShortNamesForPocloud

SpecSelect == InitSelect /\ [][NextSelect]_vars

\* the concept ID's last Len(provider) characters are the provider's
SuffixIs(concept_id, provider) ==
    /\ Len(concept_id) >= Len(provider)
    /\ SubSeq(concept_id, Len(concept_id) - Len(provider) + 1, Len(concept_id))
          = provider

\* the input positions a selection is to keep, and the k-th of them
PositionsToKeep(case_sensitive) ==
    {i \in 1..Len(call.ids) :
        IF case_sensitive THEN SuffixIs(call.ids[i], call.provider)
        ELSE SuffixIs(Lower(call.ids[i]), Lower(call.provider))}

NthKept(keep, k) ==
    CHOOSE i \in keep : Cardinality({j \in keep : j < i}) = k - 1

\* the call returned the records at positions `keep`, in input order: their
\* short names from get_short_names_for_pocloud, else their concept IDs
ReturnedPositions(keep) ==
    /\ ret.kind = "return"
    /\ Len(ret.value) = Cardinality(keep)
    /\ \A k \in 1..Len(ret.value) :
          ret.value[k] =
              IF call.op = "get_short_names_for_pocloud"
              THEN FormattedRecord(call.ids[NthKept(keep, k)]).v["short_name"]
              ELSE call.ids[NthKept(keep, k)]

\* C10 as stated: each of the three provider selections keeps exactly the
\* records whose concept ID ends with the provider, compared
\* case-insensitively, in their original order.
C10_AllSelectionsCaseInsensitive ==
    Called => ReturnedPositions(PositionsToKeep(FALSE))

\* C10 amended: get_provider_collections and get_associated_collections keep
\* exactly the records whose concept ID ends with the provider, compared
\* case-insensitively, in their original order; get_short_names_for_pocloud
\* keeps exactly those whose concept_id ends with 'POCLOUD' as written
\* (case-sensitively), and returns their short names.
C10_SelectionsBySuffix ==
    Called =>
        ReturnedPositions(
            PositionsToKeep(call.op = "get_short_names_for_pocloud"))

\* C10 witness: from [C1-POCLOUD, C2-OTHER, C3-POCLOUD] and the provider
\* 'pocloud' get_associated_collections returned [C1-POCLOUD, C3-POCLOUD]
C10_Witness ==
    /\ call.op = "get_associated_collections"
    /\ call.ids = <<ConceptIdA, ConceptIdB, ConceptIdC>>
    /\ call.provider = Lower(POCLOUD)
    /\ ret = Return(<<ConceptIdA, ConceptIdC>>)

====
